---- MODULE Spec2Model ----
(***************************************************************************)
(* A model of src/rpi_server.py: an aiohttp/aiortc server that streams the *)
(* desktop to a peer and injects the input events the peer sends on a data *)
(* channel through xdotool.                                                *)
(*                                                                         *)
(* A session is one RTCPeerConnection created by offer().                  *)
(*   Spec     the sessions' life cycle: offer, frames, data channel,       *)
(*            messages, process shutdown (two sessions, few payloads)      *)
(*   FairSpec Spec with the fairness of the event loop                     *)
(*   LoopFairSpec  the capture and control loops of two established        *)
(*            sessions, under fair scheduling                              *)
(*   CtlSpec  the message handler of one established session, over the     *)
(*            full payload alphabet and every outcome of each backend      *)
(*            command                                                      *)
(***************************************************************************)
EXTENDS Integers, Sequences, FiniteSets, TLC

VARIABLES
    pc,        \* pc[s]: the RTCPeerConnection of session s
    pcs,       \* the module-level set pcs
    capture,   \* capture[s]: the ScreenTrack of session s
    channel,   \* channel[s]: the data channel of session s
    sent,      \* sent[s]: what the server has sent to the peer of s, in order
    recvd,     \* recvd[s]: the messages handed to on_message of s, in order
    calls,     \* the backend commands run by the process, in order
    logs,      \* the log records emitted (level INFO and above)
    shutdown,  \* position of on_shutdown
    coros      \* the connections on_shutdown still has to close

vars == <<pc, pcs, capture, channel, sent, recvd, calls, logs, shutdown, coros>>

\* ------------------------------------------------------------------ bounds
MaxMsgs == 2      \* messages received by the process
MaxFrames == 1    \* frames sent per session

Sessions == {1, 2}

\* ------------------------------------------------------- JSON and payloads
\* A JSON value is a tagged record; a number n is kept in halves (h = 2n) so
\* that a non-integral coordinate such as 2.5 is a value of the model.
JNull == [t |-> "null"]
JList == [t |-> "list"]
JBool(b) == [t |-> "bool", b |-> b]
JNum(h) == [t |-> "num", h |-> h]
JStr(s) == [t |-> "str", s |-> s]
JObj(f) == [t |-> "obj", f |-> f]
Invalid == [t |-> "invalid"]

\* A data channel message: a str or a bytes object, whose body is a JSON
\* document or is not one.
Msg(enc, body) == [enc |-> enc, body |-> body]

KeyMsg(k, p) == Msg("str", JObj([type |-> JStr("key"), key |-> JStr(k), pressed |-> JBool(p)]))
AbsMsg(x, y, b, p) ==
    Msg("str", JObj([type |-> JStr("mouse_abs"), x |-> x, y |-> y,
                     button |-> JStr(b), pressed |-> JBool(p)]))
AuthMsg(secret) == Msg("str", JObj([auth |-> JStr(secret)]))

\* The payloads of the life-cycle specification.
SessionPayloads ==
    { AuthMsg("S3CR3T"), AuthMsg("WRONG"), KeyMsg("a", TRUE),
      AbsMsg(JNum(6), JNum(8), "left", TRUE) }

\* The payloads of the control specification.
ControlPayloads ==
    { Msg("str", Invalid), Msg("str", JList),
      KeyMsg("a", TRUE), KeyMsg("a", FALSE), KeyMsg("b", TRUE),
      Msg("bytes", JObj([type |-> JStr("key"), pressed |-> JBool(FALSE)])),
      AbsMsg(JNum(6), JNum(8), "left", TRUE),
      AbsMsg(JNum(6), JNum(8), "right", FALSE),
      AbsMsg(JNum(5), JNum(8), "left", TRUE),
      AbsMsg(JNum(-3), JNum(8), "right", TRUE),
      AbsMsg(JNull, JNum(8), "left", TRUE),
      AbsMsg(JNum(6), JStr("abc"), "left", FALSE),
      AbsMsg(JStr("7"), JNum(8), "left", FALSE),
      Msg("str", JObj([type |-> JStr("mouse_abs"), y |-> JNum(8)])),
      Msg("str", JObj([type |-> JStr("mouse_move"), dx |-> JNum(20), dy |-> JNum(-10)])),
      Msg("str", JObj([type |-> JStr("mouse_button"), button |-> JStr("left"),
                       pressed |-> JBool(TRUE)])),
      Msg("str", JObj([type |-> JStr("scroll"), dy |-> JNum(2)])),
      AuthMsg("S3CR3T") }

\* How a subprocess.run can end: exit status 0, a non-zero exit status, or an
\* exception because the command could not be started.
Outcomes == {"ok", "nonzero", "nostart"}

\* ------------------------------------------------------------ Python pieces
\* json.loads(message) / json.loads(message.decode('utf8'))
json_loads(m) ==
    IF m.body = Invalid THEN [ok |-> FALSE] ELSE [ok |-> TRUE, obj |-> m.body]

\* obj.get(k, d) of a dict
Get(obj, k, d) == IF k \in DOMAIN obj.f THEN obj.f[k] ELSE d

\* int(v): numbers truncate toward zero, a string must be an integer
\* literal, None raises.
IntLiterals == [s \in {"7"} |-> 7]
PyInt(v) ==
    CASE v.t = "num" ->
            [ok |-> TRUE, n |-> IF v.h >= 0 THEN v.h \div 2 ELSE -((-v.h) \div 2)]
      [] v.t = "bool" -> [ok |-> TRUE, n |-> IF v.b THEN 1 ELSE 0]
      [] v.t = "str" ->
            IF v.s \in DOMAIN IntLiterals
            THEN [ok |-> TRUE, n |-> IntLiterals[v.s]] ELSE [ok |-> FALSE, n |-> 0]
      [] OTHER -> [ok |-> FALSE, n |-> 0]

\* str(v)
PyStr(v) ==
    CASE v.t = "str" -> v.s
      [] v.t = "null" -> "None"
      [] v.t = "bool" -> IF v.b THEN "True" ELSE "False"
      [] OTHER -> "?"

\* bool(v), the test of "if pressed:"
Truthy(v) ==
    CASE v.t = "bool" -> v.b
      [] v.t = "null" -> FALSE
      [] v.t = "num" -> v.h # 0
      [] v.t = "str" -> v.s # ""
      [] OTHER -> TRUE

Cmd(argv, outcome) == [argv |-> argv, outcome |-> outcome]

\* What a handler did: the commands it ran (attempted), the log records it
\* emitted and whether it returned or raised.
Done(cmds, lg) == [result |-> "returned", cmds |-> cmds, logs |-> lg]
Raised == [result |-> "raised", cmds |-> <<>>, logs |-> <<>>]

\* inject_key with the test of pressed lost: every key message is a press.
inject_key_press_only(key, pressed, outs) ==
    LET argv == <<"xdotool", "keydown", PyStr(key)>>
    IN  IF outs[1] = "nostart"
        THEN Done(<<Cmd(argv, "nostart")>>, <<"inject_key failed">>)
        ELSE Done(<<Cmd(argv, outs[1])>>, <<>>)

\* inject_key(key, pressed): outs[1] is how the one subprocess.run ends.
inject_key(key, pressed, outs) ==
    LET argv == <<"xdotool", IF Truthy(pressed) THEN "keydown" ELSE "keyup", PyStr(key)>>
    IN  IF outs[1] = "nostart"
        THEN Done(<<Cmd(argv, "nostart")>>, <<"inject_key failed">>)
        ELSE Done(<<Cmd(argv, outs[1])>>, <<>>)

\* inject_mouse_abs with its two commands in the other order: the button
\* first, then the move.
inject_mouse_abs_button_first(x, y, button, pressed, outs) ==
    LET move == <<"xdotool", "mousemove", "--sync", ToString(x), ToString(y)>>
        btn == <<"xdotool", IF Truthy(pressed) THEN "mousedown" ELSE "mouseup",
                 IF button = JStr("left") THEN "1" ELSE "3">>
    IN  IF outs[1] = "nostart"
        THEN Done(<<Cmd(btn, "nostart")>>, <<"inject_mouse_abs failed">>)
        ELSE IF outs[2] = "nostart"
        THEN Done(<<Cmd(btn, outs[1]), Cmd(move, "nostart")>>, <<"inject_mouse_abs failed">>)
        ELSE Done(<<Cmd(btn, outs[1]), Cmd(move, outs[2])>>, <<>>)

\* inject_mouse_abs(x, y, button, pressed): outs[1] and outs[2] are how the
\* first and second subprocess.run end.
inject_mouse_abs(x, y, button, pressed, outs) ==
    LET move == <<"xdotool", "mousemove", "--sync", ToString(x), ToString(y)>>
        btn == <<"xdotool", IF Truthy(pressed) THEN "mousedown" ELSE "mouseup",
                 IF button = JStr("left") THEN "1" ELSE "3">>
    IN  IF outs[1] = "nostart"
        THEN Done(<<Cmd(move, "nostart")>>, <<"inject_mouse_abs failed">>)
        ELSE IF outs[2] = "nostart"
        THEN Done(<<Cmd(move, outs[1]), Cmd(btn, "nostart")>>, <<"inject_mouse_abs failed">>)
        ELSE Done(<<Cmd(move, outs[1]), Cmd(btn, outs[2])>>, <<>>)

\* dispatch with a plain else for the key branch: every message that is not
\* a mouse_abs is injected as a key.
dispatch_else_key(obj, outs) ==
    IF obj.t # "obj" THEN Raised
    ELSE LET typ == Get(obj, "type", JNull) IN
    IF typ = JStr("mouse_abs")
    THEN LET x == PyInt(Get(obj, "x", JNum(0)))
             y == PyInt(Get(obj, "y", JNum(0)))
         IN  IF ~x.ok \/ ~y.ok THEN Raised
             ELSE inject_mouse_abs(x.n, y.n, Get(obj, "button", JStr("left")),
                                   Get(obj, "pressed", JBool(TRUE)), outs)
    ELSE inject_key(Get(obj, "key", JNull), Get(obj, "pressed", JBool(TRUE)), outs)

\* on_message(message), after the message was parsed into obj
dispatch(obj, outs) ==
    IF obj.t # "obj" THEN Raised          \* obj.get: AttributeError
    ELSE LET typ == Get(obj, "type", JNull) IN
    IF typ = JStr("mouse_abs")
    THEN LET x == PyInt(Get(obj, "x", JNum(0)))
             y == PyInt(Get(obj, "y", JNum(0)))
         IN  IF ~x.ok \/ ~y.ok THEN Raised    \* int(): TypeError, ValueError
             ELSE inject_mouse_abs(x.n, y.n, Get(obj, "button", JStr("left")),
                                   Get(obj, "pressed", JBool(TRUE)), outs)
    ELSE IF typ = JStr("key")
    THEN inject_key(Get(obj, "key", JNull), Get(obj, "pressed", JBool(TRUE)), outs)
    ELSE Done(<<>>, <<>>)

\* on_message without the return of its except clause: after the warning
\* the handler goes on to use obj, which is unbound, and raises.
on_message_no_return(m, outs) ==
    LET parsed == json_loads(m)
    IN  IF ~parsed.ok
        THEN [result |-> "raised", cmds |-> <<>>, logs |-> <<"Invalid DC message">>]
        ELSE dispatch(parsed.obj, outs)

\* on_message(message)
on_message(m, outs) ==
    LET parsed == json_loads(m)
    IN  IF ~parsed.ok THEN Done(<<>>, <<"Invalid DC message">>)
        ELSE dispatch(parsed.obj, outs)

\* --------------------------------------------------------- capture source
\* mss().monitors: entry 0 is the union of all monitors, entry 1 the primary
\* one, which ScreenTrack.__init__ selects.
Monitors == <<[width |-> 3840, height |-> 1080], [width |-> 1920, height |-> 1080]>>
monitor == Monitors[2]

Frame == [kind |-> "frame"]

\* ------------------------------------------------------------------- state
Init ==
    /\ pc = [s \in Sessions |-> "none"]
    /\ pcs = {}
    /\ capture = [s \in Sessions |-> "none"]
    /\ channel = [s \in Sessions |-> "none"]
    /\ sent = [s \in Sessions |-> <<>>]
    /\ recvd = [s \in Sessions |-> <<>>]
    /\ calls = <<>>
    /\ logs = <<>>
    /\ shutdown = "idle"
    /\ coros = {}

\* The number of messages the process has received.
RECURSIVE Total(_, _)
Total(f, S) ==
    IF S = {} THEN 0
    ELSE LET s == CHOOSE x \in S : TRUE IN Len(f[s]) + Total(f, S \ {s})

\* pc.close(): the connection is closed, its track stops and its data
\* channel closes.
Closed(f, s, from, to) == IF f[s] \in from THEN [f EXCEPT ![s] = to] ELSE f

\* ----------------------------------------------------------------- actions
\* offer(), up to its first await after the connection is set up: the
\* connection is created and registered, the track is added, the handlers
\* are registered.
OfferCreate(s) ==
    /\ pc[s] = "none"
    /\ shutdown # "done"
    /\ pc' = [pc EXCEPT ![s] = "created"]
    /\ pcs' = pcs \cup {s}
    /\ capture' = [capture EXCEPT ![s] = "idle"]
    /\ UNCHANGED <<channel, sent, recvd, calls, logs, shutdown, coros>>

\* offer(), the negotiation and the response: from here the peer is
\* connected, the sender pulls frames and the peer may open a data channel.
OfferAnswer(s) ==
    /\ pc[s] = "created"
    /\ pc' = [pc EXCEPT ![s] = "answered"]
    /\ UNCHANGED <<pcs, capture, channel, sent, recvd, calls, logs, shutdown, coros>>

\* Recv tied to the control loop: a frame is produced only while the data
\* channel of the session is open.
Recv_with_channel(s) ==
    /\ pc[s] = "answered"
    /\ channel[s] = "open"
    /\ capture[s] \in {"idle", "running"}
    /\ Len(sent[s]) < MaxFrames
    /\ capture' = [capture EXCEPT ![s] = "running"]
    /\ sent' = [sent EXCEPT ![s] = Append(@, Frame)]
    /\ UNCHANGED <<pc, pcs, channel, recvd, calls, logs, shutdown, coros>>

\* ScreenTrack.recv() returns a frame, which the sender sends to the peer.
\* (A failure of the cursor overlay is swallowed: the frame is sent anyway.)
Recv(s) ==
    /\ pc[s] = "answered"
    /\ capture[s] \in {"idle", "running"}
    /\ Len(sent[s]) < MaxFrames
    /\ capture' = [capture EXCEPT ![s] = "running"]
    /\ sent' = [sent EXCEPT ![s] = Append(@, Frame)]
    /\ UNCHANGED <<pc, pcs, channel, recvd, calls, logs, shutdown, coros>>

\* ScreenTrack.recv() raises (the grab fails): the capture loop ends.
RecvFail(s) ==
    /\ pc[s] = "answered"
    /\ capture[s] \in {"idle", "running"}
    /\ capture' = [capture EXCEPT ![s] = "stopped"]
    /\ UNCHANGED <<pc, pcs, channel, sent, recvd, calls, logs, shutdown, coros>>

\* on_datachannel(channel): the peer opened a data channel.
OnDatachannel(s) ==
    /\ pc[s] = "answered"
    /\ channel[s] = "none"
    /\ channel' = [channel EXCEPT ![s] = "open"]
    /\ UNCHANGED <<pc, pcs, capture, sent, recvd, calls, logs, shutdown, coros>>

\* The peer closes the data channel (end of the control stream).
ChannelClose(s) ==
    /\ channel[s] = "open"
    /\ channel' = [channel EXCEPT ![s] = "closed"]
    /\ UNCHANGED <<pc, pcs, capture, sent, recvd, calls, logs, shutdown, coros>>

\* The data channel of s delivers a message: the channel is open. (The
\* number of messages of a run is bounded.)
CanReceive(s) == channel[s] = "open" /\ Total(recvd, Sessions) < MaxMsgs

\* Handle with a record of commands kept per connection: the commands of the
\* other sessions are lost from the process's record.
Handle_own_only(s, m, outs, survives) ==
    LET r == on_message(m, outs)
        i == Len(recvd[s]) + 1
    IN  /\ CanReceive(s)
        /\ recvd' = [recvd EXCEPT ![s] = Append(@, [msg |-> m, result |-> r.result])]
        /\ calls' = SelectSeq(calls, LAMBDA c : c.sess = s) \o
                        [k \in 1..Len(r.cmds) |->
                            [sess |-> s, idx |-> i, argv |-> r.cmds[k].argv,
                             outcome |-> r.cmds[k].outcome]]
        /\ logs' = logs \o [k \in 1..Len(r.logs) |->
                                [sess |-> s, idx |-> i, text |-> r.logs[k]]]
        /\ channel' = IF r.result = "raised" /\ ~survives
                      THEN [channel EXCEPT ![s] = "closed"] ELSE channel
        /\ UNCHANGED <<pc, pcs, capture, sent, shutdown, coros>>

\* Handle with handlers that overlap: the first command of a message is run
\* before the last command of the handler before it has been.
Handle_overlapped(s, m, outs, survives) ==
    LET r == on_message(m, outs)
        i == Len(recvd[s]) + 1
        new == [k \in 1..Len(r.cmds) |->
                    [sess |-> s, idx |-> i, argv |-> r.cmds[k].argv,
                     outcome |-> r.cmds[k].outcome]]
    IN  /\ CanReceive(s)
        /\ recvd' = [recvd EXCEPT ![s] = Append(@, [msg |-> m, result |-> r.result])]
        /\ calls' = IF calls # <<>> /\ new # <<>>
                    THEN SubSeq(calls, 1, Len(calls) - 1) \o <<new[1], calls[Len(calls)]>>
                            \o SubSeq(new, 2, Len(new))
                    ELSE calls \o new
        /\ logs' = logs \o [k \in 1..Len(r.logs) |->
                                [sess |-> s, idx |-> i, text |-> r.logs[k]]]
        /\ channel' = IF r.result = "raised" /\ ~survives
                      THEN [channel EXCEPT ![s] = "closed"] ELSE channel
        /\ UNCHANGED <<pc, pcs, capture, sent, shutdown, coros>>

\* Handle with the commands of a message put before those already run, as
\* when the dispatch of a message is deferred past that of a later one.
Handle_deferred(s, m, outs, survives) ==
    LET r == on_message(m, outs)
        i == Len(recvd[s]) + 1
    IN  /\ CanReceive(s)
        /\ recvd' = [recvd EXCEPT ![s] = Append(@, [msg |-> m, result |-> r.result])]
        /\ calls' = [k \in 1..Len(r.cmds) |->
                        [sess |-> s, idx |-> i, argv |-> r.cmds[k].argv,
                         outcome |-> r.cmds[k].outcome]] \o calls
        /\ logs' = logs \o [k \in 1..Len(r.logs) |->
                                [sess |-> s, idx |-> i, text |-> r.logs[k]]]
        /\ channel' = IF r.result = "raised" /\ ~survives
                      THEN [channel EXCEPT ![s] = "closed"] ELSE channel
        /\ UNCHANGED <<pc, pcs, capture, sent, shutdown, coros>>

\* on_message(message) for a message m of session s, the backend commands
\* ending as outs says. The handler is synchronous and its subprocess.run
\* calls block the event loop: nothing else of the process runs meanwhile.
\* When the handler raises, the exception goes to the library's receive
\* loop, which survives it or ends (the source does not decide which).
Handle(s, m, outs, survives) ==
    LET r == on_message(m, outs)
        i == Len(recvd[s]) + 1
    IN  /\ CanReceive(s)
        /\ recvd' = [recvd EXCEPT ![s] = Append(@, [msg |-> m, result |-> r.result])]
        /\ calls' = calls \o [k \in 1..Len(r.cmds) |->
                                [sess |-> s, idx |-> i, argv |-> r.cmds[k].argv,
                                 outcome |-> r.cmds[k].outcome]]
        /\ logs' = logs \o [k \in 1..Len(r.logs) |->
                                [sess |-> s, idx |-> i, text |-> r.logs[k]]]
        /\ channel' = IF r.result = "raised" /\ ~survives
                      THEN [channel EXCEPT ![s] = "closed"] ELSE channel
        /\ UNCHANGED <<pc, pcs, capture, sent, shutdown, coros>>

\* The outcomes and the library's reaction that on_message(m, outs) depends
\* on: those it does not reach are fixed, to enumerate each case once.
Relevant(m, outs, survives) ==
    LET r == on_message(m, outs)
    IN  /\ Len(r.cmds) < 2 => outs[2] = "ok"
        /\ Len(r.cmds) < 1 => outs[1] = "ok"
        /\ r.result = "returned" => survives

\* A message of the life cycle: every backend command succeeds.
OnMessage(s) ==
    /\ CanReceive(s)
    /\ \E m \in SessionPayloads, survives \in BOOLEAN :
        /\ Relevant(m, <<"ok", "ok">>, survives)
        /\ Handle(s, m, <<"ok", "ok">>, survives)

\* A control message: any payload, any outcome of the backend commands.
OnControlMessage(s) ==
    /\ CanReceive(s)
    /\ \E m \in ControlPayloads, o1 \in Outcomes, o2 \in Outcomes, survives \in BOOLEAN :
        /\ Relevant(m, <<o1, o2>>, survives)
        /\ Handle(s, m, <<o1, o2>>, survives)

\* on_shutdown(app), line by line: the list of close() coroutines is built
\* from pcs as it is now,
ShutdownBegin ==
    /\ shutdown = "idle"
    /\ shutdown' = "closing"
    /\ coros' = pcs
    /\ UNCHANGED <<pc, pcs, capture, channel, sent, recvd, calls, logs>>

\* asyncio.gather runs them: one connection is closed,
ShutdownClose(s) ==
    /\ shutdown = "closing"
    /\ s \in coros
    /\ coros' = coros \ {s}
    /\ pc' = [pc EXCEPT ![s] = "closed"]
    /\ capture' = Closed(capture, s, {"idle", "running"}, "stopped")
    /\ channel' = Closed(channel, s, {"open"}, "closed")
    /\ UNCHANGED <<pcs, sent, recvd, calls, logs, shutdown>>

\* and when all are closed pcs is cleared.
ShutdownClear ==
    /\ shutdown = "closing"
    /\ coros = {}
    /\ shutdown' = "done"
    /\ pcs' = {}
    /\ UNCHANGED <<pc, capture, channel, sent, recvd, calls, logs, coros>>

Next ==
    \/ \E s \in Sessions : OfferCreate(s)
    \/ \E s \in Sessions : OfferAnswer(s)
    \/ \E s \in Sessions : Recv(s)
    \/ \E s \in Sessions : RecvFail(s)
    \/ \E s \in Sessions : OnDatachannel(s)
    \/ \E s \in Sessions : ChannelClose(s)
    \/ \E s \in Sessions : OnMessage(s)
    \/ ShutdownBegin
    \/ \E s \in Sessions : ShutdownClose(s)
    \/ ShutdownClear

Spec == Init /\ [][Next]_vars

\* The event loop runs every task that is ready; that the process is shut
\* down, and what the peer and the capture source do, is not up to it.
Program ==
    \/ \E s \in Sessions : OfferAnswer(s)
    \/ \E s \in Sessions : ShutdownClose(s)
    \/ ShutdownClear

FairSpec == Spec /\ WF_vars(Program)

\* The loop specification: both sessions are established (offer() has
\* answered) and the process is not being shut down; what runs are the two
\* loops of each session, under fair scheduling: the sender task of a track
\* that can produce a frame is run, and a message the data channel can
\* deliver is delivered to on_message.
LoopInit ==
    /\ pc = [s \in Sessions |-> "answered"]
    /\ pcs = Sessions
    /\ capture = [s \in Sessions |-> "idle"]
    /\ channel = [s \in Sessions |-> "none"]
    /\ sent = [s \in Sessions |-> <<>>]
    /\ recvd = [s \in Sessions |-> <<>>]
    /\ calls = <<>>
    /\ logs = <<>>
    /\ shutdown = "idle"
    /\ coros = {}

LoopNext ==
    \/ \E s \in Sessions : Recv(s)
    \/ \E s \in Sessions : RecvFail(s)
    \/ \E s \in Sessions : OnDatachannel(s)
    \/ \E s \in Sessions : ChannelClose(s)
    \/ \E s \in Sessions : OnMessage(s)

LoopFairSpec ==
    /\ LoopInit /\ [][LoopNext]_vars
    /\ \A s \in Sessions : WF_vars(Recv(s)) /\ WF_vars(OnMessage(s))

\* The control specification: session 1 is established, its data channel is
\* open and its track is streaming; the process receives control messages.
CtlInit ==
    /\ pc = [s \in Sessions |-> IF s = 1 THEN "answered" ELSE "none"]
    /\ pcs = {1}
    /\ capture = [s \in Sessions |-> IF s = 1 THEN "running" ELSE "none"]
    /\ channel = [s \in Sessions |-> IF s = 1 THEN "open" ELSE "none"]
    /\ sent = [s \in Sessions |-> IF s = 1 THEN <<Frame>> ELSE <<>>]
    /\ recvd = [s \in Sessions |-> <<>>]
    /\ calls = <<>>
    /\ logs = <<>>
    /\ shutdown = "idle"
    /\ coros = {}

CtlNext ==
    \/ \E s \in Sessions : OnControlMessage(s)
    \/ \E s \in Sessions : ChannelClose(s)

CtlSpec == CtlInit /\ [][CtlNext]_vars

\* ------------------------------------------------------------------ claims
\* The shared secret the sessions are to be authenticated with. (The source
\* configures none.)
SharedSecret == "S3CR3T"
ScreenSize(w, h) == [kind |-> "screen_size", width |-> w, height |-> h]

HasAuth(m) == m.body.t = "obj" /\ "auth" \in DOMAIN m.body.f
Authenticated(s) ==
    /\ Len(recvd[s]) >= 1
    /\ HasAuth(recvd[s][1].msg)
    /\ recvd[s][1].msg.body.f["auth"] = JStr(SharedSecret)
Rejected(s) ==
    /\ Len(recvd[s]) >= 1
    /\ HasAuth(recvd[s][1].msg)
    /\ recvd[s][1].msg.body.f["auth"] # JStr(SharedSecret)

CallsOf(s) == SelectSeq(calls, LAMBDA c : c.sess = s)
Group(s, i) == SelectSeq(calls, LAMBDA c : c.sess = s /\ c.idx = i)
LogsOf(s, i) == SelectSeq(logs, LAMBDA l : l.sess = s /\ l.idx = i)

\* C1: in every reachable state, a session for which a command was given to
\* the injector or a frame was sent to the peer is one whose first message
\* was an Authenticate message carrying the shared secret.
AuthGatesSession ==
    \A s \in Sessions :
        (CallsOf(s) # <<>> \/ sent[s] # <<>>) => Authenticated(s)

\* C2: a session whose first message carries another secret than the shared
\* one is closed, nothing was or is sent to its peer, no command of it reaches
\* the injector and its capture loop is not running.
WrongSecretClosesSilently ==
    \A s \in Sessions :
        Rejected(s) =>
            /\ pc[s] = "closed"
            /\ sent[s] = <<>>
            /\ CallsOf(s) = <<>>
            /\ capture[s] # "running"

\* C3: what an authenticated session has sent starts with the one screen_size
\* message, carrying the geometry of the capture source, before any frame,
\* and holds no second screen_size message.
ScreenSizeAnnouncedOnce ==
    \A s \in Sessions :
        (Authenticated(s) /\ sent[s] # <<>>) =>
            /\ sent[s][1] = ScreenSize(monitor.width, monitor.height)
            /\ \A k \in 2..Len(sent[s]) : sent[s][k].kind # "screen_size"

\* C5: whenever the capture loop or the control loop of a session has
\* stopped, the connection of the session is eventually closed (and with it
\* the other loop) without the process being shut down: it is closed, or the
\* shutdown has begun and the closing has become the shutdown's.
LoopEndEndsSession ==
    \A s \in Sessions :
        (capture[s] = "stopped" \/ channel[s] = "closed")
            ~> (pc[s] = "closed" \/ shutdown # "idle")

\* What the claims say of a received message e = recvd[s][i].
IsKey(m) == m.body.t = "obj" /\ Get(m.body, "type", JNull) = JStr("key")
IsAbs(m) == m.body.t = "obj" /\ Get(m.body, "type", JNull) = JStr("mouse_abs")
Field(m, k) == Get(m.body, k, JNull)
\* The message was given to the injector: it is of a type the handler
\* dispatches and the handler returned.
Handled(e) == e.result = "returned" /\ (IsKey(e.msg) \/ IsAbs(e.msg))
\* The backend command an injector call starts with.
HeadCmds == {"keydown", "keyup", "mousemove"}
Heads(g) == SelectSeq(g, LAMBDA c : c.argv[2] \in HeadCmds)

HandlerNeverRaises ==
    \A s \in Sessions : \A i \in 1..Len(recvd[s]) : recvd[s][i].result = "returned"

\* C7: a message that is not valid JSON is logged and skipped: the handler
\* returns, no command is run for it, the session is as it was (its channel
\* open), and the next message of the session is dispatched as usual.
InvalidJsonSkippedState ==
    \A s \in Sessions : \A i \in 1..Len(recvd[s]) :
        recvd[s][i].msg.body = Invalid =>
            /\ recvd[s][i].result = "returned"
            /\ Group(s, i) = <<>>
            /\ LogsOf(s, i) = <<[sess |-> s, idx |-> i, text |-> "Invalid DC message"]>>
            /\ (i < Len(recvd[s]) /\ IsKey(recvd[s][i + 1].msg)) =>
                   (Len(Group(s, i + 1)) = 1
                        /\ Group(s, i + 1)[1].argv[2] \in {"keydown", "keyup"})
            /\ (i < Len(recvd[s]) /\ Handled(recvd[s][i + 1])) =>
                   Group(s, i + 1) # <<>>
InvalidJsonSkippedStep ==
    \A s \in Sessions :
        (Len(recvd'[s]) = Len(recvd[s]) + 1
            /\ recvd'[s][Len(recvd'[s])].msg.body = Invalid) =>
                /\ calls' = calls
                /\ channel' = channel /\ channel[s] = "open"
                /\ pc' = pc /\ capture' = capture
InvalidJsonSkipped == []InvalidJsonSkippedState /\ [][InvalidJsonSkippedStep]_vars

\* C7 witness: an invalid message, then a key message that was dispatched.
InvalidJsonSkippedWitness ==
    /\ Len(recvd[1]) = 2
    /\ recvd[1][1].msg.body = Invalid
    /\ recvd[1][2].msg = KeyMsg("a", TRUE)
    /\ Len(calls) = 1 /\ calls[1].idx = 2 /\ calls[1].argv = <<"xdotool", "keydown", "a">>
    /\ channel[1] = "open"

\* C8: a backend command that failed (it could not be started or it
\* reported failure) is logged, was attempted once only, and the handler
\* returned.
FailLogs == {"inject_key failed", "inject_mouse_abs failed"}
BackendFailureLogged ==
    \A a \in 1..Len(calls) :
        calls[a].outcome # "ok" =>
            /\ \E l \in 1..Len(logs) :
                  /\ logs[l].sess = calls[a].sess /\ logs[l].idx = calls[a].idx
                  /\ logs[l].text \in FailLogs
            /\ \A b \in 1..Len(calls) :
                  (calls[b].sess = calls[a].sess /\ calls[b].idx = calls[a].idx
                      /\ calls[b].argv = calls[a].argv) => b = a
            /\ recvd[calls[a].sess][calls[a].idx].result = "returned"

\* C9: a key message for key k causes exactly one backend command: keydown k
\* when pressed is true, keyup k when it is false; the command of a press
\* message comes before the command of a later release message of the key.
KeyPressRelease ==
    \A s \in Sessions : \A i \in 1..Len(recvd[s]) :
        LET m == recvd[s][i].msg IN
        (IsKey(m) /\ Field(m, "key").t = "str" /\ Field(m, "pressed").t = "bool") =>
            /\ Len(Group(s, i)) = 1
            /\ Group(s, i)[1].argv =
                   <<"xdotool", IF Field(m, "pressed").b THEN "keydown" ELSE "keyup",
                     Field(m, "key").s>>
            /\ \A j \in (i + 1)..Len(recvd[s]) :
                  (Field(m, "pressed").b /\ IsKey(recvd[s][j].msg)
                      /\ Field(recvd[s][j].msg, "key") = Field(m, "key")
                      /\ Field(recvd[s][j].msg, "pressed") = JBool(FALSE)) =>
                  \E a, b \in 1..Len(calls) :
                      /\ a < b
                      /\ calls[a].sess = s /\ calls[a].idx = i
                      /\ calls[a].argv[2] = "keydown"
                      /\ calls[b].sess = s /\ calls[b].idx = j
                      /\ calls[b].argv[2] = "keyup"

\* C9 witness: a press and then a release of key a, recorded in that order.
KeyPressReleaseWitness ==
    /\ Len(recvd[1]) = 2
    /\ recvd[1][1].msg = KeyMsg("a", TRUE) /\ recvd[1][2].msg = KeyMsg("a", FALSE)
    /\ Len(calls) = 2
    /\ calls[1].argv = <<"xdotool", "keydown", "a">>
    /\ calls[2].argv = <<"xdotool", "keyup", "a">>

\* A mouse_abs message of the protocol: numeric x and y, button left or
\* right, boolean pressed.
AbsOfProtocol(m) ==
    /\ IsAbs(m)
    /\ Field(m, "x").t = "num" /\ Field(m, "y").t = "num"
    /\ Field(m, "button") \in {JStr("left"), JStr("right")}
    /\ Field(m, "pressed").t = "bool"
ButtonCmd(m) ==
    <<"xdotool", IF Field(m, "pressed").b THEN "mousedown" ELSE "mouseup",
      IF Field(m, "button") = JStr("left") THEN "1" ELSE "3">>
\* The decimal text of the number kept as h halves, if it is an integer.
Exactly(h, str) == h % 2 = 0 /\ str = ToString(h \div 2)
Trunc(h) == IF h >= 0 THEN h \div 2 ELSE -((-h) \div 2)

\* C10 as claimed: every mouse_abs message causes two commands: a synchronous
\* mousemove to exactly (x, y), then the button command.
MouseAbsMoveThenButton ==
    \A s \in Sessions : \A i \in 1..Len(recvd[s]) :
        LET m == recvd[s][i].msg
            g == Group(s, i)
        IN  AbsOfProtocol(m) =>
            /\ Len(g) = 2
            /\ SubSeq(g[1].argv, 1, 3) = <<"xdotool", "mousemove", "--sync">>
            /\ Exactly(Field(m, "x").h, g[1].argv[4])
            /\ Exactly(Field(m, "y").h, g[1].argv[5])
            /\ g[2].argv = ButtonCmd(m)

\* C10 as amended: every mouse_abs message causes first a synchronous
\* mousemove to (x, y) truncated toward zero, and then, unless the mousemove
\* could not be started, the button command and nothing else.
MouseAbsMoveThenButtonTrunc ==
    \A s \in Sessions : \A i \in 1..Len(recvd[s]) :
        LET m == recvd[s][i].msg
            g == Group(s, i)
        IN  AbsOfProtocol(m) =>
            /\ Len(g) >= 1
            /\ g[1].argv = <<"xdotool", "mousemove", "--sync",
                             ToString(Trunc(Field(m, "x").h)),
                             ToString(Trunc(Field(m, "y").h))>>
            /\ IF g[1].outcome = "nostart"
               THEN Len(g) = 1
               ELSE Len(g) = 2 /\ g[2].argv = ButtonCmd(m)

\* C10 witness: a right-button release at (3, 4): the move, then mouseup 3.
MouseAbsMoveThenButtonWitness ==
    /\ Len(recvd[1]) >= 1
    /\ recvd[1][1].msg = AbsMsg(JNum(6), JNum(8), "right", FALSE)
    /\ Len(calls) >= 2
    /\ calls[1].argv = <<"xdotool", "mousemove", "--sync", "3", "4">>
    /\ calls[2].argv = <<"xdotool", "mouseup", "3">>

IsMove(m) == m.body.t = "obj" /\ Get(m.body, "type", JNull) = JStr("mouse_move")
IsButton(m) == m.body.t = "obj" /\ Get(m.body, "type", JNull) = JStr("mouse_button")

\* C11: every mouse_move message is applied as its own round trip: the
\* cursor position is read, then an absolute move is issued; the two commands
\* of a message are its own, in that order, and those of a later mouse_move
\* follow them.
MouseMoveRoundTrip ==
    \A s \in Sessions : \A i \in 1..Len(recvd[s]) :
        LET m == recvd[s][i].msg
            g == Group(s, i)
        IN  (IsMove(m) /\ Field(m, "dx").t = "num" /\ Field(m, "dy").t = "num") =>
            /\ Len(g) = 2
            /\ g[1].argv[2] = "getmouselocation"
            /\ g[2].argv[2] = "mousemove"

\* C12: every mouse_button message causes one button command, a mousedown
\* when pressed is true and a mouseup when it is false, for that button, and
\* no cursor move.
MouseButtonCommand ==
    \A s \in Sessions : \A i \in 1..Len(recvd[s]) :
        LET m == recvd[s][i].msg
            g == Group(s, i)
        IN  (IsButton(m) /\ Field(m, "button") \in {JStr("left"), JStr("right")}
                /\ Field(m, "pressed").t = "bool") =>
            /\ Len(g) = 1
            /\ g[1].argv = ButtonCmd(m)

\* The backend commands a key or mouse_abs message of the protocol stands
\* for, each a command line.
CommandsOf(m) ==
    IF IsKey(m)
    THEN <<<<"xdotool", IF Field(m, "pressed").b THEN "keydown" ELSE "keyup",
             Field(m, "key").s>>>>
    ELSE <<<<"xdotool", "mousemove", "--sync", ToString(Trunc(Field(m, "x").h)),
             ToString(Trunc(Field(m, "y").h))>>, ButtonCmd(m)>>
OfProtocol(m) ==
    \/ IsKey(m) /\ Field(m, "key").t = "str" /\ Field(m, "pressed").t = "bool"
    \/ AbsOfProtocol(m)

Capturing(s) ==
    pc[s] = "answered" /\ capture[s] \in {"idle", "running"} /\ Len(sent[s]) < MaxFrames
LoopsProgressIndependentlyStep ==
    \A s \in Sessions :
        /\ (Capturing(s) /\ recvd'[s] # recvd[s]) => (Capturing(s))'
        /\ (CanReceive(s) /\ sent'[s] # sent[s]) =>
               (channel'[s] = "open" /\ recvd' = recvd)
ShutdownDestroysEverySession ==
    /\ shutdown # "done" => \A s \in Sessions : pc[s] # "none" => s \in pcs
    /\ shutdown = "done" =>
          /\ pcs = {}
          /\ \A s \in Sessions : pc[s] # "none" => pc[s] = "closed"

SameMessage(c, d) == c.sess = d.sess /\ c.idx = d.idx

\* C17: the commands of one message are adjacent in the order the process
\* ran its commands: between the mousemove and the button command of a
\* mouse_abs no command of another message, of this or of another session,
\* was run; the command after a mousemove that was started is its button
\* command.
MouseAbsNotSeparated ==
    /\ \A a, b \in 1..Len(calls) :
          (a < b /\ SameMessage(calls[a], calls[b])) =>
              \A c \in a..b : SameMessage(calls[a], calls[c])
    /\ \A a \in 1..Len(calls) :
          (calls[a].argv[2] = "mousemove" /\ calls[a].outcome # "nostart") =>
              /\ a < Len(calls)
              /\ SameMessage(calls[a], calls[a + 1])
              /\ calls[a + 1].argv[2] \in {"mousedown", "mouseup"}

\* C17 witness: a mouse_abs of session 2 and then one of session 1: four
\* commands, two and two.
MouseAbsNotSeparatedWitness ==
    /\ Len(calls) = 4
    /\ calls[1].sess = 2 /\ calls[2].sess = 2
    /\ calls[3].sess = 1 /\ calls[4].sess = 1
    /\ calls[1].argv[2] = "mousemove" /\ calls[3].argv[2] = "mousemove"

\* A decoded message (a JSON object) whose type is absent or is none of the
\* protocol's.
ProtocolTypes == {JStr("mouse_abs"), JStr("mouse_move"), JStr("mouse_button"), JStr("key")}
UnknownType(m) == m.body.t = "obj" /\ Get(m.body, "type", JNull) \notin ProtocolTypes

\* C18: a message of unknown type leaves the injector untouched: the handler
\* returns, no command is run and nothing is logged for it, the session is as
\* it was, and the next message of the session is dispatched as usual.
UnknownTypeIgnoredState ==
    \A s \in Sessions : \A i \in 1..Len(recvd[s]) :
        UnknownType(recvd[s][i].msg) =>
            /\ recvd[s][i].result = "returned"
            /\ Group(s, i) = <<>>
            /\ LogsOf(s, i) = <<>>
            /\ (i < Len(recvd[s]) /\ OfProtocol(recvd[s][i + 1].msg)) =>
                   /\ Group(s, i + 1) # <<>>
                   /\ Group(s, i + 1)[1].argv = CommandsOf(recvd[s][i + 1].msg)[1]
UnknownTypeIgnoredStep ==
    \A s \in Sessions :
        (Len(recvd'[s]) = Len(recvd[s]) + 1
            /\ UnknownType(recvd'[s][Len(recvd'[s])].msg)) =>
                /\ calls' = calls /\ logs' = logs
                /\ channel' = channel /\ channel[s] = "open"
                /\ pc' = pc /\ capture' = capture /\ sent' = sent
UnknownTypeIgnored == []UnknownTypeIgnoredState /\ [][UnknownTypeIgnoredStep]_vars

\* C18 witness: a message of type scroll, then a key message that was
\* dispatched.
UnknownTypeIgnoredWitness ==
    /\ Len(recvd[1]) = 2
    /\ recvd[1][1].msg = Msg("str", JObj([type |-> JStr("scroll"), dy |-> JNum(2)]))
    /\ recvd[1][2].msg = KeyMsg("b", TRUE)
    /\ Len(calls) = 1 /\ calls[1].idx = 2 /\ calls[1].argv = <<"xdotool", "keydown", "b">>
    /\ channel[1] = "open"

====
